---- MODULE Spec2Model ----
(***************************************************************************)
(* The ripple lifecycle engine of src/src/TouchRipple.tsx: the imperative  *)
(* handle start / stop / pulsate, the touch-deferral timer, the zero-delay *)
(* re-entrant stop timer, the state updater queue of setRipples and the    *)
(* effect that delivers rippleCallback after a render that changed the     *)
(* ripples state.                                                          *)
(***************************************************************************)
EXTENDS Integers, Sequences, FiniteSets, TLC

\* ------------------------------------------------------------------ bounds
\* Number of commands (start, stop, pulsate) the host issues in one run.
MaxCalls == 3
\* Number of commands in a run that follows the Ripple instances through time.
MaxLifeCalls == 4
\* Number of commands in a run of touch starts and stops.
MaxTapCalls == 4
MaxLayoutCalls == 3
MaxKeyEvents == 4
\* Number of clock ticks in such a run.
MaxTicks == 4
\* Largest small width and height of a surface box.
MaxDim == 2
\* Largest small event coordinate.
MaxCoord == 1

\* --------------------------------------------------------- program constants
DURATION == 550
DELAY_RIPPLE == 80
\* The delay of setTimeout called without a delay argument.
ZERO_DELAY == 0
\* props.center defaults to false.
centerProp == FALSE
\* An absent callback argument (cb is undefined) and the initial null of the
\* rippleCallback ref: both are falsy in the effect's test.
NoCb == 0
\* The initial null of the startTimer ref; clearTimeout(null) clears nothing.
NoTimer == 0
\* The clock advances in ticks of half the exit timeout.
TimeStep == DURATION \div 2
\* A Ripple instance with no exit timer armed.
NoDeadline == -1

VARIABLES
  ripples,            \* the committed React state: sequence of ripple elements
  queue,              \* setRipples updaters enqueued and not yet rendered
  nextKey,            \* nextKey.current
  rippleCallback,     \* rippleCallback.current
  ignoringMouseDown,  \* ignoringMouseDown.current
  startTimer,         \* startTimer.current: a timer handle
  startTimerCommit,   \* startTimerCommit.current: <<>> (null) or <<closure>>
  timers,             \* the live (armed, not fired, not cleared) timers
  nextTimer,          \* the handle the next setTimeout returns
  mounted,            \* the component is mounted
  rect,               \* the surface box container.current measures to
  log,                \* history: the commands issued so far, in call order
  delivered,          \* history: the callbacks the effect has invoked, in order
  created,            \* history: the keys of the elements created, in order
  fired,              \* history: the handles of the timers that have fired
  discarded,          \* history: tags of deferred commits dropped at line 319
  fault,              \* history: a command has thrown to its caller
  group,              \* the children TransitionGroup renders, by key
  now,                \* the clock, in ticks of TimeStep units
  exited,             \* history: the onExited signals of the Ripple instances
  keydownRef,         \* ButtonBase: keydownRef.current
  focusVisible,       \* ButtonBase: the focusVisible state
  focused,            \* the control has the focus, visibly or not
  events              \* history: the focus and key events the control received

vars == <<ripples, queue, nextKey, rippleCallback, ignoringMouseDown, startTimer,
          startTimerCommit, timers, nextTimer, mounted, rect, log, delivered,
          created, fired, discarded, fault, group, now, exited, keydownRef,
          focusVisible, focused, events>>

\* The state of the button that hosts the component.
adapter == <<keydownRef, focusVisible, focused, events>>

\* ------------------------------------------------------------------ inputs
\* start() events: {} (the default and what pulsate passes), a mousedown with
\* client coordinates, a touchstart with a touch list.
EvEmpty ==
  [type |-> "none", hasClient |-> FALSE, clientX |-> 0, clientY |-> 0,
   hasTouches |-> FALSE, touchX |-> 0, touchY |-> 0]
EvMouseDown ==
  [type |-> "mousedown", hasClient |-> TRUE, clientX |-> 60, clientY |-> 30,
   hasTouches |-> FALSE, touchX |-> 0, touchY |-> 0]
EvTouchStart ==
  [type |-> "touchstart", hasClient |-> FALSE, clientX |-> 0, clientY |-> 0,
   hasTouches |-> TRUE, touchX |-> 60, touchY |-> 30]

\* stop() events: only the type is read.
EvTouchEnd == [type |-> "touchend"]
EvMouseUp == [type |-> "mouseup"]
\* stop() called without an event: the parameter is undefined.
NoEvent == [undefined |-> TRUE]
StopEvents == {EvTouchEnd, EvMouseUp}

\* start() options.
OptNone ==
  [hasPulsate |-> FALSE, pulsate |-> FALSE, hasCenter |-> FALSE, center |-> FALSE,
   fakeElement |-> FALSE]
OptPulsate == [OptNone EXCEPT !.hasPulsate = TRUE, !.pulsate = TRUE]

\* The (event, options) pairs the host calls start() with; start({}, {pulsate:
\* true}) is the call pulsate makes.
StartInputs ==
  {<<EvEmpty, OptNone>>, <<EvMouseDown, OptNone>>, <<EvTouchStart, OptNone>>}

\* The box of the surface: getBoundingClientRect() with clientWidth and
\* clientHeight of the element.
BoxA ==
  [left |-> 10, top |-> 10, width |-> 100, height |-> 50,
   clientWidth |-> 100, clientHeight |-> 50]

\* The inputs of the runs that measure the geometry: boxes with small and
\* with large sides, with and without a 2-unit border between the bounding
\* box and the client box, at the origin and offset; events at small and at
\* large coordinates; every combination of the options.
Widths == (0..MaxDim) \cup {100}
Heights == (0..MaxDim) \cup {50}
Offsets == {0, 10}
Borders == {0, 2}
Boxes ==
  {[left |-> l, top |-> t, width |-> w, height |-> h,
    clientWidth |-> IF w >= b THEN w - b ELSE w,
    clientHeight |-> IF h >= b THEN h - b ELSE h] :
     l \in Offsets, t \in Offsets, w \in Widths, h \in Heights, b \in Borders}
Xs == (0..MaxCoord) \cup {60}
Ys == (0..MaxCoord) \cup {30}
GeoEvents ==
  {EvEmpty}
    \cup {[EvMouseDown EXCEPT !.clientX = x, !.clientY = y] : x \in Xs, y \in Ys}
    \cup {[EvTouchStart EXCEPT !.touchX = x, !.touchY = y] : x \in Xs, y \in Ys}
GeoOptions ==
  {[hasPulsate |-> hp, pulsate |-> hp /\ p, hasCenter |-> hc, center |-> hc /\ c,
    fakeElement |-> f] : hp \in BOOLEAN, p \in BOOLEAN, hc \in BOOLEAN,
                         c \in BOOLEAN, f \in BOOLEAN}

\* ---------------------------------------------------------------- the state
St ==
  [ripples |-> ripples, queue |-> queue, nextKey |-> nextKey,
   rippleCallback |-> rippleCallback, ignoringMouseDown |-> ignoringMouseDown,
   startTimer |-> startTimer, startTimerCommit |-> startTimerCommit,
   timers |-> timers, nextTimer |-> nextTimer, mounted |-> mounted,
   rect |-> rect, discarded |-> discarded, fault |-> fault]

Set(s) ==
  /\ ripples' = s.ripples
  /\ queue' = s.queue
  /\ nextKey' = s.nextKey
  /\ rippleCallback' = s.rippleCallback
  /\ ignoringMouseDown' = s.ignoringMouseDown
  /\ startTimer' = s.startTimer
  /\ startTimerCommit' = s.startTimerCommit
  /\ timers' = s.timers
  /\ nextTimer' = s.nextTimer
  /\ mounted' = s.mounted
  /\ rect' = s.rect
  /\ discarded' = s.discarded
  /\ fault' = s.fault

Init ==
  /\ ripples = <<>>
  /\ queue = <<>>
  /\ nextKey = 0
  /\ rippleCallback = NoCb
  /\ ignoringMouseDown = FALSE
  /\ startTimer = NoTimer
  /\ startTimerCommit = <<>>
  /\ timers = {}
  /\ nextTimer = 1
  /\ mounted = TRUE
  /\ rect = BoxA
  /\ log = <<>>
  /\ delivered = <<>>
  /\ created = <<>>
  /\ fired = {}
  /\ discarded = {}
  /\ fault = FALSE
  /\ group = {}
  /\ now = 0
  /\ exited = <<>>
  /\ keydownRef = FALSE
  /\ focusVisible = FALSE
  /\ focused = FALSE
  /\ events = <<>>

\* ------------------------------------------------------------------ timers
\* setTimeout(fn, delay): arms a timer and returns a fresh handle. A timer's
\* function is either the deferral function of start (lines 286-291) or the
\* re-invocation of stop with the same arguments (lines 313-315). tag is
\* history: the call whose commit the timer belongs to (the touch start that
\* armed it, or the touch start whose commit the arming stop has just run).
setTimeout(s, delay, event, cb, tag) ==
  [s EXCEPT !.timers = @ \cup {[id |-> s.nextTimer, delay |-> delay,
                                event |-> event, cb |-> cb, tag |-> tag]},
            !.nextTimer = @ + 1]

\* clearTimeout(handle): the timer with that handle, if still live, is gone.
clearTimeout(s, handle) ==
  [s EXCEPT !.timers = {t \in @ : t.id # handle}]

\* ----------------------------------------------------------- state updates
\* setRipples(updater): enqueues the updater on a mounted component; React
\* drops a state update on an unmounted one.
setRipples(s, update) ==
  IF s.mounted THEN [s EXCEPT !.queue = Append(@, update)] ELSE s

\* The element the updater of startCommit builds. key={nextKey.current} is
\* read when the updater runs: at the call when React evaluates it eagerly
\* (eager, only possible with no update pending), else at the render.
AddUpdate(s, params, eager) ==
  [op |-> "add", eager |-> eager /\ s.queue = <<>>, key |-> s.nextKey,
   pulsate |-> params.pulsate, rippleX |-> params.rippleX,
   rippleY |-> params.rippleY, rippleSize |-> params.rippleSize,
   cb |-> params.cb, tag |-> params.tag]

\* The updater of stop, lines 321-326; cb is history (whose call enqueued it).
SliceUpdate(cb) == [op |-> "slice", cb |-> cb]

\* startCommit that stores a callback only when one is given.
startCommit_keepCb(s, params, eager) ==
  LET s1 == setRipples(s, AddUpdate(s, params, eager))
  IN  [s1 EXCEPT !.nextKey = @ + 1,
                 !.rippleCallback = IF params.cb # NoCb THEN params.cb ELSE @]

startCommit(s, params, eager) ==
  LET s1 == setRipples(s, AddUpdate(s, params, eager))
  IN  [s1 EXCEPT !.nextKey = @ + 1, !.rippleCallback = params.cb]

\* ---------------------------------------------------------------- geometry
\* Math.round(n / 2) for an integer n >= 0 (halves round up).
RoundHalf(n) == (n + 1) \div 2

Max(a, b) == IF a >= b THEN a ELSE b
Abs(a) == IF a >= 0 THEN a ELSE 0 - a

\* element = fakeElement ? null : container.current; <<>> is null.
Element(s, options) ==
  IF options.fakeElement \/ ~s.mounted THEN <<>> ELSE <<s.rect>>

ZeroRect == [width |-> 0, height |-> 0, left |-> 0, top |-> 0]

\* The centered diameter without the parity adjustment of lines 254-256.
CenteredSize3_noParity(w, h) == 2 * w * w + h * h

\* The diameter is a square root; the model keeps 3 * rippleSize^2, which is
\* an integer on both branches. Centered: 3 * size^2 = 2w^2 + h^2, and the
\* size is an even integer n exactly when 3n^2 = 2w^2 + h^2 with n even; it
\* then becomes n + 1.
CenteredSize3(w, h) ==
  LET q == 2 * w * w + h * h
      even == {n \in 0..Max(w, h) : n % 2 = 0 /\ 3 * n * n = q}
  IN  IF even # {}
      THEN LET n == CHOOSE m \in even : TRUE IN 3 * (n + 1) * (n + 1)
      ELSE q

Geometry(event, center, element) ==
  LET r == IF element # <<>> THEN element[1] ELSE ZeroRect
      cw == IF element # <<>> THEN element[1].clientWidth ELSE 0
      ch == IF element # <<>> THEN element[1].clientHeight ELSE 0
      atCenter ==
        \/ center
        \/ (event.hasClient /\ event.clientX = 0 /\ event.clientY = 0)
        \/ ((~event.hasClient \/ event.clientX = 0) /\ ~event.hasTouches)
      px == IF event.hasTouches THEN event.touchX ELSE event.clientX
      py == IF event.hasTouches THEN event.touchY ELSE event.clientY
      x == IF atCenter THEN RoundHalf(r.width) ELSE px - r.left
      y == IF atCenter THEN RoundHalf(r.height) ELSE py - r.top
      sizeX == Max(Abs(cw - x), x) * 2 + 2
      sizeY == Max(Abs(ch - y), y) * 2 + 2
  IN  [rippleX |-> x, rippleY |-> y,
       rippleSize |-> IF center THEN CenteredSize3(r.width, r.height)
                      ELSE 3 * (sizeX * sizeX + sizeY * sizeY)]

\* ---------------------------------------------------------------- commands
\* start that commits a touch start at once instead of deferring it.
start_noDefer(s, event, options, cb, tag, eager) ==
  LET pulsate == IF options.hasPulsate THEN options.pulsate ELSE FALSE
      center == IF options.hasCenter THEN options.center
                ELSE centerProp \/ (options.hasPulsate /\ options.pulsate)
  IN
  IF event.type = "mousedown" /\ s.ignoringMouseDown
  THEN [s EXCEPT !.ignoringMouseDown = FALSE]
  ELSE
    LET s1 == IF event.type = "touchstart"
              THEN [s EXCEPT !.ignoringMouseDown = TRUE] ELSE s
        geo == Geometry(event, center, Element(s1, options))
        params == [pulsate |-> pulsate, rippleX |-> geo.rippleX,
                   rippleY |-> geo.rippleY, rippleSize |-> geo.rippleSize,
                   cb |-> cb, tag |-> tag]
    IN  startCommit(s1, params, eager)

\* start without the mouse-after-touch filter of lines 213-216.
start_noFilter(s, event, options, cb, tag, eager) ==
  LET pulsate == IF options.hasPulsate THEN options.pulsate ELSE FALSE
      center == IF options.hasCenter THEN options.center
                ELSE centerProp \/ (options.hasPulsate /\ options.pulsate)
      s1 == IF event.type = "touchstart"
            THEN [s EXCEPT !.ignoringMouseDown = TRUE] ELSE s
      geo == Geometry(event, center, Element(s1, options))
      params == [pulsate |-> pulsate, rippleX |-> geo.rippleX,
                 rippleY |-> geo.rippleY, rippleSize |-> geo.rippleSize,
                 cb |-> cb, tag |-> tag]
  IN
  IF event.hasTouches
  THEN IF s1.startTimerCommit = <<>>
       THEN LET s2 == [s1 EXCEPT !.startTimerCommit = <<params>>]
                s3 == setTimeout(s2, DELAY_RIPPLE, EvEmpty, NoCb, tag)
            IN  [s3 EXCEPT !.startTimer = s2.nextTimer]
       ELSE s1
  ELSE startCommit(s1, params, eager)

\* tag is history: the number of the call, carried by the element it creates.
start(s, event, options, cb, tag, eager) ==
  LET pulsate == IF options.hasPulsate THEN options.pulsate ELSE FALSE
      center == IF options.hasCenter THEN options.center
                ELSE centerProp \/ (options.hasPulsate /\ options.pulsate)
  IN
  IF event.type = "mousedown" /\ s.ignoringMouseDown
  THEN [s EXCEPT !.ignoringMouseDown = FALSE]
  ELSE
    LET s1 == IF event.type = "touchstart"
              THEN [s EXCEPT !.ignoringMouseDown = TRUE] ELSE s
        geo == Geometry(event, center, Element(s1, options))
        params == [pulsate |-> pulsate, rippleX |-> geo.rippleX,
                   rippleY |-> geo.rippleY, rippleSize |-> geo.rippleSize,
                   cb |-> cb, tag |-> tag]
    IN
    IF event.hasTouches
    THEN IF s1.startTimerCommit = <<>>
         THEN LET s2 == [s1 EXCEPT !.startTimerCommit = <<params>>]
                  s3 == setTimeout(s2, DELAY_RIPPLE, EvEmpty, NoCb, tag)
              IN  [s3 EXCEPT !.startTimer = s2.nextTimer]
         ELSE s1
    ELSE startCommit(s1, params, eager)

\* pulsate that passes a mousedown event.
pulsate_asMouse(s, tag, eager) ==
  start(s, [EvEmpty EXCEPT !.type = "mousedown"], OptPulsate, NoCb, tag, eager)

\* pulsate that forgets the pulsate option.
pulsate_plain(s, tag, eager) == start(s, EvEmpty, OptNone, NoCb, tag, eager)

\* pulsate takes no parameter: whatever the caller passes is not read.
pulsate(s, tag, eager) == start(s, EvEmpty, OptPulsate, NoCb, tag, eager)

\* stop without line 319: the deferred commit stays pending.
stop_keepCommit(s, event, cb, eager) ==
  LET s0 == clearTimeout(s, s.startTimer) IN
  IF event.type = "touchend" /\ s0.startTimerCommit # <<>>
  THEN LET s1 == startCommit(s0, s0.startTimerCommit[1], eager)
           s2 == [s1 EXCEPT !.startTimerCommit = <<>>]
           s3 == setTimeout(s2, ZERO_DELAY, event, cb, s0.startTimerCommit[1].tag)
       IN  [s3 EXCEPT !.startTimer = s2.nextTimer]
  ELSE LET s1 == [s0 EXCEPT
                    !.discarded = @ \cup {c.tag : c \in {s0.startTimerCommit[i] :
                                              i \in DOMAIN s0.startTimerCommit}}]
           s2 == setRipples(s1, SliceUpdate(cb))
       IN  [s2 EXCEPT !.rippleCallback = cb]

\* stop whose zero-delay re-invocation forgets the callback.
stop_dropCb(s, event, cb, eager) ==
  LET s0 == clearTimeout(s, s.startTimer) IN
  IF event.type = "touchend" /\ s0.startTimerCommit # <<>>
  THEN LET s1 == startCommit(s0, s0.startTimerCommit[1], eager)
           s2 == [s1 EXCEPT !.startTimerCommit = <<>>]
           s3 == setTimeout(s2, ZERO_DELAY, event, NoCb, s0.startTimerCommit[1].tag)
       IN  [s3 EXCEPT !.startTimer = s2.nextTimer]
  ELSE LET s1 == [s0 EXCEPT
                    !.discarded = @ \cup {c.tag : c \in {s0.startTimerCommit[i] :
                                              i \in DOMAIN s0.startTimerCommit}},
                    !.startTimerCommit = <<>>]
           s2 == setRipples(s1, SliceUpdate(cb))
       IN  [s2 EXCEPT !.rippleCallback = cb]

\* stop that also resets ignoringMouseDown.
stop_clearFlag(s, event, cb, eager) ==
  LET s0 == clearTimeout(s, s.startTimer) IN
  IF event = NoEvent THEN [s0 EXCEPT !.fault = TRUE] ELSE
  IF event.type = "touchend" /\ s0.startTimerCommit # <<>>
  THEN LET s1 == startCommit(s0, s0.startTimerCommit[1], eager)
           s2 == [s1 EXCEPT !.startTimerCommit = <<>>]
           s3 == setTimeout(s2, ZERO_DELAY, event, cb, s0.startTimerCommit[1].tag)
       IN  [s3 EXCEPT !.startTimer = s2.nextTimer, !.ignoringMouseDown = FALSE]
  ELSE LET s1 == [s0 EXCEPT
                    !.discarded = @ \cup {c.tag : c \in {s0.startTimerCommit[i] :
                                              i \in DOMAIN s0.startTimerCommit}},
                    !.startTimerCommit = <<>>]
           s2 == setRipples(s1, SliceUpdate(cb))
       IN  [s2 EXCEPT !.rippleCallback = cb, !.ignoringMouseDown = FALSE]

\* With no event passed, event.type at line 309 throws a TypeError after the
\* clearTimeout of line 305 has run.
stop(s, event, cb, eager) ==
  LET s0 == clearTimeout(s, s.startTimer) IN
  IF event = NoEvent THEN [s0 EXCEPT !.fault = TRUE] ELSE
  IF event.type = "touchend" /\ s0.startTimerCommit # <<>>
  THEN LET s1 == startCommit(s0, s0.startTimerCommit[1], eager)
           s2 == [s1 EXCEPT !.startTimerCommit = <<>>]
           s3 == setTimeout(s2, ZERO_DELAY, event, cb, s0.startTimerCommit[1].tag)
       IN  [s3 EXCEPT !.startTimer = s2.nextTimer]
  ELSE LET s1 == [s0 EXCEPT
                    !.discarded = @ \cup {c.tag : c \in {s0.startTimerCommit[i] :
                                              i \in DOMAIN s0.startTimerCommit}},
                    !.startTimerCommit = <<>>]
           s2 == setRipples(s1, SliceUpdate(cb))
       IN  [s2 EXCEPT !.rippleCallback = cb]

\* A deferral timer that measures the surface when it fires.
startTimerFn_remeasure(s, eager) ==
  IF s.startTimerCommit # <<>>
  THEN LET p == s.startTimerCommit[1]
           c == log[p.tag]
           center == IF c.opt.hasCenter THEN c.opt.center
                     ELSE centerProp \/ (c.opt.hasPulsate /\ c.opt.pulsate)
           geo == Geometry(c.ev, center, Element(s, c.opt))
           q == [p EXCEPT !.rippleX = geo.rippleX, !.rippleY = geo.rippleY,
                          !.rippleSize = geo.rippleSize]
       IN  [startCommit(s, q, eager) EXCEPT !.startTimerCommit = <<>>]
  ELSE s

\* The function of the deferral timer, lines 286-291.
startTimerFn(s, eager) ==
  IF s.startTimerCommit # <<>>
  THEN [startCommit(s, s.startTimerCommit[1], eager) EXCEPT !.startTimerCommit = <<>>]
  ELSE s

\* ------------------------------------------------------------------ render
\* ApplyUpdate with a stop that removes the newest element instead.
ApplyUpdate_last(acc, u, nk) ==
  IF u.op = "add"
  THEN [ripples |-> Append(acc.ripples,
                      [key |-> IF u.eager THEN u.key ELSE nk,
                       pulsate |-> u.pulsate, rippleX |-> u.rippleX,
                       rippleY |-> u.rippleY, rippleSize |-> u.rippleSize,
                       tag |-> u.tag]),
        changed |-> TRUE]
  ELSE IF Len(acc.ripples) > 0
       THEN [ripples |-> SubSeq(acc.ripples, 1, Len(acc.ripples) - 1),
             changed |-> TRUE]
       ELSE acc

\* ApplyUpdate with a stop that empties the collection.
ApplyUpdate_clear(acc, u, nk) ==
  IF u.op = "add"
  THEN [ripples |-> Append(acc.ripples,
                      [key |-> IF u.eager THEN u.key ELSE nk,
                       pulsate |-> u.pulsate, rippleX |-> u.rippleX,
                       rippleY |-> u.rippleY, rippleSize |-> u.rippleSize,
                       tag |-> u.tag]),
        changed |-> TRUE]
  ELSE IF Len(acc.ripples) > 0
       THEN [ripples |-> <<>>, changed |-> TRUE]
       ELSE acc

\* One updater applied to the state being computed; changed records whether a
\* new array was produced (slice of an empty array returns the array itself).
ApplyUpdate(acc, u, nk) ==
  IF u.op = "add"
  THEN [ripples |-> Append(acc.ripples,
                      [key |-> IF u.eager THEN u.key ELSE nk,
                       pulsate |-> u.pulsate, rippleX |-> u.rippleX,
                       rippleY |-> u.rippleY, rippleSize |-> u.rippleSize,
                       tag |-> u.tag]),
        changed |-> TRUE]
  ELSE IF Len(acc.ripples) > 0
       THEN [ripples |-> Tail(acc.ripples), changed |-> TRUE]
       ELSE acc

RECURSIVE ApplyQueue(_, _, _)
ApplyQueue(acc, q, nk) ==
  IF q = <<>> THEN acc
  ELSE ApplyQueue(ApplyUpdate(acc, Head(q), nk), Tail(q), nk)

\* The keys the add updaters of a queue give their elements, in order.
RECURSIVE NewKeys(_, _)
NewKeys(q, nk) ==
  IF q = <<>> THEN <<>>
  ELSE (IF Head(q).op = "add"
        THEN <<IF Head(q).eager THEN Head(q).key ELSE nk>> ELSE <<>>)
       \o NewKeys(Tail(q), nk)

\* ------------------------------------------------------ the Ripple instances
\* The time on the clock.
Time == now * TimeStep

Keys(seq) == {seq[i].key : i \in DOMAIN seq}

\* A child TransitionGroup mounts: in is true, the Ripple's leaving state is
\* false and its effect arms nothing.
NewChild(k) ==
  [key |-> k, in |-> TRUE, leaving |-> FALSE, deadline |-> NoDeadline, flip |-> 0]

\* The effect of a Ripple whose exit timer fires at once.
rippleEffect_noDelay(c, inProp, time) ==
  IF c.in = inProp THEN c
  ELSE IF ~inProp
       THEN [c EXCEPT !.in = FALSE, !.leaving = TRUE, !.deadline = time,
                      !.flip = time]
       ELSE [c EXCEPT !.in = TRUE, !.deadline = NoDeadline]

\* The effect of Ripple.tsx lines 80-92 after a render that passes inProp: it
\* re-runs only when inProp changed (handleExited and timeout are stable). On
\* a flip to false it sets leaving and arms the exit timer with timeout =
\* DURATION; on a flip back to true the cleanup of the previous run clears that
\* timer. flip is history: the time of the flip to false.
rippleEffect(c, inProp, time) ==
  IF c.in = inProp THEN c
  ELSE IF ~inProp
       THEN [c EXCEPT !.in = FALSE, !.leaving = TRUE,
                      !.deadline = time + DURATION, !.flip = time]
       ELSE [c EXCEPT !.in = TRUE, !.deadline = NoDeadline]

\* TransitionGroup given the new children: a child whose key is among them is
\* rendered with in = true (a new key is mounted), a child whose key is not is
\* kept and rendered with in = false until its onExited.
reconcile(g, keys, time) ==
  {rippleEffect(c, c.key \in keys, time) : c \in g}
    \cup {NewChild(k) : k \in keys \ {c.key : c \in g}}

\* --------------------------------------------------------------- actions
\* The host issues at most n commands, on a mounted component.
Calls(n) == mounted /\ Len(log) < n
CanCall == Calls(MaxCalls)
Tag == Len(log) + 1
Eagers == IF queue = <<>> THEN BOOLEAN ELSE {FALSE}

\* The log entry of a call: what was called, and history of the state it
\* found and left: clean (no element, no update queued, no commit pending),
\* keys (nextKey before the call), armed (the handle of the timer the call
\* armed, NoTimer if none). The entry of a start also keeps the event and the
\* options of the call (ev, opt) and the box the surface had at the call (box).
Entry(op, type, touches, cb, r) ==
  [op |-> op, type |-> type, touches |-> touches, cb |-> cb,
   clean |-> ripples = <<>> /\ queue = <<>> /\ startTimerCommit = <<>>,
   keys |-> nextKey,
   armed |-> IF r.nextTimer > nextTimer THEN nextTimer ELSE NoTimer]

StartCall(event, options, cb, eager) ==
  /\ LET r == start(St, event, options, cb, Tag, eager)
     IN  /\ Set(r)
         /\ log' = Append(log, Entry("start", event.type, event.hasTouches, cb, r)
                                     @@ [ev |-> event, opt |-> options, box |-> rect])
  /\ UNCHANGED <<delivered, created, fired, group, now, exited>>
  /\ UNCHANGED adapter

Start(event, options, cb, eager) == CanCall /\ StartCall(event, options, cb, eager)

\* arg is what the caller passes to pulsate (ButtonBase passes the event); the
\* call is logged as the start call it makes.
PulsateCall(arg, eager) ==
  /\ LET r == pulsate(St, Tag, eager)
     IN  /\ Set(r)
         /\ log' = Append(log, Entry("start", "none", FALSE, NoCb, r)
                                     @@ [ev |-> EvEmpty, opt |-> OptPulsate, box |-> rect])
  /\ UNCHANGED <<delivered, created, fired, group, now, exited>>
  /\ UNCHANGED adapter

Pulsate(arg, eager) == CanCall /\ PulsateCall(arg, eager)

StopCall(event, cb, eager) ==
  /\ LET r == stop(St, event, cb, eager)
     IN  /\ Set(r)
         /\ log' = Append(log, Entry("stop",
                                     IF event = NoEvent THEN "undefined" ELSE event.type,
                                     FALSE, cb, r))
  /\ UNCHANGED <<delivered, created, fired, group, now, exited>>
  /\ UNCHANGED adapter

Stop(event, cb, eager) == CanCall /\ StopCall(event, cb, eager)

\* The deferral timer fires. Timers fire in deadline order: a zero-delay timer
\* armed earlier fires first (a zero-delay timer is only ever armed after the
\* current deferral timer was cleared).
FireStartTimer(t, eager) ==
  /\ t \in timers
  /\ t.delay = DELAY_RIPPLE
  /\ \A u \in timers : u.delay # ZERO_DELAY
  /\ Set(startTimerFn([St EXCEPT !.timers = @ \ {t}], eager))
  /\ fired' = fired \cup {t.id}
  /\ UNCHANGED <<log, delivered, created, group, now, exited>>
  /\ UNCHANGED adapter

\* The zero-delay timer fires: stop(event, cb) again. Timers of equal delay
\* fire in the order they were armed.
FireStopTimer(t, eager) ==
  /\ t \in timers
  /\ t.delay = ZERO_DELAY
  /\ \A u \in timers : u.delay = ZERO_DELAY => t.id <= u.id
  /\ Set(stop([St EXCEPT !.timers = @ \ {t}], t.event, t.cb, eager))
  /\ fired' = fired \cup {t.id}
  /\ UNCHANGED <<log, delivered, created, group, now, exited>>
  /\ UNCHANGED adapter

\* React renders: the queued updaters run in order on the current state; if
\* the state is a new array the effect of lines 141-146 runs after the commit.
Render ==
  /\ mounted
  /\ queue # <<>>
  /\ LET r == ApplyQueue([ripples |-> ripples, changed |-> FALSE], queue, nextKey)
         fire == r.changed /\ rippleCallback # NoCb
     IN  /\ ripples' = r.ripples
         /\ queue' = <<>>
         /\ delivered' = IF fire THEN Append(delivered, rippleCallback) ELSE delivered
         /\ rippleCallback' = IF r.changed THEN NoCb ELSE rippleCallback
         /\ created' = created \o NewKeys(queue, nextKey)
         /\ group' = IF r.changed THEN reconcile(group, Keys(r.ripples), Time)
                      ELSE group
  /\ UNCHANGED <<nextKey, ignoringMouseDown, startTimer, startTimerCommit, timers,
                 nextTimer, mounted, rect, log, discarded, fired, fault, now,
                 exited>>
  /\ UNCHANGED adapter

\* The cleanup of the effect of lines 158-162; every Ripple instance is
\* unmounted with the component and the cleanup of its effect clears its timer.
Unmount ==
  /\ mounted
  /\ Set([clearTimeout(St, startTimer) EXCEPT !.mounted = FALSE])
  /\ group' = {}
  /\ UNCHANGED <<log, delivered, created, fired, now, exited>>
  /\ UNCHANGED adapter

\* The exit timer of a Ripple instance fires: handleExited calls onExited and
\* TransitionGroup drops the child, which unmounts it.
ExitTimer(c) ==
  /\ c \in group
  /\ c.deadline # NoDeadline
  /\ c.deadline <= Time
  /\ exited' = Append(exited, [key |-> c.key, at |-> Time, flip |-> c.flip])
  /\ group' = group \ {c}
  /\ UNCHANGED <<ripples, queue, nextKey, rippleCallback, ignoringMouseDown,
                 startTimer, startTimerCommit, timers, nextTimer, mounted, rect,
                 log, delivered, created, fired, discarded, fault, now>>
  /\ UNCHANGED adapter

\* The clock ticks; a timer that is due fires before the clock moves on.
Advance ==
  /\ now < MaxTicks
  /\ \A c \in group : c.deadline = NoDeadline \/ c.deadline > Time
  /\ now' = now + 1
  /\ UNCHANGED <<ripples, queue, nextKey, rippleCallback, ignoringMouseDown,
                 startTimer, startTimerCommit, timers, nextTimer, mounted, rect,
                 log, delivered, created, fired, discarded, fault, group, exited>>
  /\ UNCHANGED adapter

CbArgs == {NoCb, Tag}

Next ==
  \/ \E i \in StartInputs, c \in CbArgs, g \in Eagers :
       Start(i[1], i[2], c, g)
  \/ \E c \in CbArgs, g \in Eagers : Pulsate(c, g)
  \/ \E e \in StopEvents, c \in CbArgs, g \in Eagers : Stop(e, c, g)
  \/ \E t \in timers, g \in Eagers : FireStartTimer(t, g)
  \/ \E t \in timers, g \in Eagers : FireStopTimer(t, g)
  \/ Render
  \/ Unmount

Spec == Init /\ [][Next]_vars

\* The host of the README usage example, which also calls stop() with no
\* argument.
StopNoEvent == CanCall /\ StopCall(NoEvent, NoCb, FALSE)

NextReadme ==
  \/ \E i \in StartInputs, c \in CbArgs, g \in Eagers :
       Start(i[1], i[2], c, g)
  \/ \E c \in CbArgs, g \in Eagers : Pulsate(c, g)
  \/ \E e \in StopEvents, c \in CbArgs, g \in Eagers : Stop(e, c, g)
  \/ StopNoEvent
  \/ \E t \in timers, g \in Eagers : FireStartTimer(t, g)
  \/ \E t \in timers, g \in Eagers : FireStopTimer(t, g)
  \/ Render
  \/ Unmount

SpecReadme == Init /\ [][NextReadme]_vars

\* Runs of touch starts and stops with their timers and renders.
TapStart(cb, eager) ==
  Calls(MaxTapCalls) /\ StartCall(EvTouchStart, OptNone, cb, eager)
TapStop(event, cb, eager) == Calls(MaxTapCalls) /\ StopCall(event, cb, eager)

NextTap ==
  \/ \E c \in CbArgs, g \in Eagers : TapStart(c, g)
  \/ \E e \in StopEvents, c \in CbArgs, g \in Eagers : TapStop(e, c, g)
  \/ \E t \in timers, g \in Eagers : FireStartTimer(t, g)
  \/ \E t \in timers, g \in Eagers : FireStopTimer(t, g)
  \/ Render

SpecTap == Init /\ [][NextTap]_vars

\* Runs that follow the Ripple instances through their exit: keyboard starts
\* and mouseup stops, renders, the clock and the exit timers.
LifeStart(eager) ==
  Calls(MaxLifeCalls) /\ StartCall(EvEmpty, OptNone, NoCb, eager)
LifeStop == Calls(MaxLifeCalls) /\ StopCall(EvMouseUp, NoCb, FALSE)

NextLife ==
  \/ \E g \in Eagers : LifeStart(g)
  \/ LifeStop
  \/ Render
  \/ \E c \in group : ExitTimer(c)
  \/ Advance
  \/ Unmount

SpecLife == Init /\ [][NextLife]_vars

\* Runs that measure the geometry of one command: the surface has any of the
\* boxes; the command is one start, with any event and options and with a
\* callback, or one pulsate, which a touch start may precede (it sets
\* ignoringMouseDown and leaves its commit pending); then the render.
InitGeo ==
  /\ ripples = <<>>
  /\ queue = <<>>
  /\ nextKey = 0
  /\ rippleCallback = NoCb
  /\ ignoringMouseDown = FALSE
  /\ startTimer = NoTimer
  /\ startTimerCommit = <<>>
  /\ timers = {}
  /\ nextTimer = 1
  /\ mounted = TRUE
  /\ rect \in Boxes
  /\ log = <<>>
  /\ delivered = <<>>
  /\ created = <<>>
  /\ fired = {}
  /\ discarded = {}
  /\ fault = FALSE
  /\ group = {}
  /\ now = 0
  /\ exited = <<>>
  /\ keydownRef = FALSE
  /\ focusVisible = FALSE
  /\ focused = FALSE
  /\ events = <<>>

OnlyTouchBefore ==
  mounted /\ \A i \in DOMAIN log : log[i].type = "touchstart" /\ log[i].cb = NoCb

TouchBefore == log = <<>> /\ StartCall(EvTouchStart, OptNone, NoCb, FALSE)
GeoStart(event, options) ==
  mounted /\ log = <<>> /\ StartCall(event, options, Tag, FALSE)
GeoPulsate == OnlyTouchBefore /\ PulsateCall(NoCb, FALSE)

NextGeo ==
  \/ TouchBefore
  \/ \E e \in GeoEvents, o \in GeoOptions : GeoStart(e, o)
  \/ GeoPulsate
  \/ Render

SpecGeo == InitGeo /\ [][NextGeo]_vars

\* Runs in which the surface is laid out anew between the commands: the box
\* getBoundingClientRect() returns changes between BoxA and BoxB while touch
\* starts (plain and pulsating), keyboard starts and stops are issued and
\* the timers fire.
BoxB ==
  [left |-> 0, top |-> 20, width |-> 40, height |-> 80,
   clientWidth |-> 38, clientHeight |-> 78]
LayoutBoxes == {BoxA, BoxB}
LayoutInputs ==
  {<<EvTouchStart, OptNone>>, <<EvTouchStart, OptPulsate>>, <<EvEmpty, OptNone>>}

Layout(b) ==
  /\ mounted
  /\ b # rect
  /\ rect' = b
  /\ UNCHANGED <<ripples, queue, nextKey, rippleCallback, ignoringMouseDown,
                 startTimer, startTimerCommit, timers, nextTimer, mounted, log,
                 delivered, created, fired, discarded, fault, group, now, exited>>
  /\ UNCHANGED adapter
LayoutStart(event, options, eager) ==
  Calls(MaxLayoutCalls) /\ StartCall(event, options, Tag, eager)
LayoutStop(event) == Calls(MaxLayoutCalls) /\ StopCall(event, NoCb, FALSE)

NextLayout ==
  \/ \E b \in LayoutBoxes : Layout(b)
  \/ \E i \in LayoutInputs, g \in Eagers : LayoutStart(i[1], i[2], g)
  \/ \E e \in StopEvents : LayoutStop(e)
  \/ \E t \in timers, g \in Eagers : FireStartTimer(t, g)
  \/ \E t \in timers, g \in Eagers : FireStopTimer(t, g)
  \/ Render

SpecLayout == Init /\ [][NextLayout]_vars

\* ------------------------------------------------------- the button adapter
\* ButtonBase drives the component from focus and key events. Its props have
\* their defaults: focusRipple is true, the ripple is enabled, the button is
\* not disabled, so rippleRef.current is the handle of the mounted component.
focusRipple == TRUE
Space == " "
KeyNames == {Space, "Enter"}

\* A keyboard event has no client coordinates and no touch list.
EvKeyDown == [EvEmpty EXCEPT !.type = "keydown"]
EvKeyUp == [type |-> "keyup"]
EvBlur == [type |-> "blur"]

\* The control receives at most MaxKeyEvents focus and key events.
CanReceive == mounted /\ Len(events) < MaxKeyEvents

\* The entry of the events history: the kind of the event, its key, whether
\* its default was prevented before the handler ran, focusVisible as the
\* handler saw it, and the number of the command the handler issued (0 if it
\* issued none).
Received(kind, key, prevented, call) ==
  [kind |-> kind, key |-> key, prevented |-> prevented, visible |-> focusVisible,
   call |-> call]

\* The step of a handler that issues at most one command: r is the state the
\* command leaves, entry its log entry.
Handled(issues, r, entry) ==
  /\ Set(IF issues THEN r ELSE St)
  /\ log' = IF issues THEN Append(log, entry) ELSE log
  /\ UNCHANGED <<delivered, created, fired, group, now, exited>>

\* handleFocus: the focus is visible when it comes from the keyboard; the
\* effect on focusVisible then calls pulsate().
Focus(visible, eager) ==
  /\ CanReceive
  /\ ~focused
  /\ focused' = TRUE
  /\ focusVisible' = visible
  /\ keydownRef' = keydownRef
  /\ LET issues == visible /\ focusRipple
         r == pulsate(St, Tag, eager)
     IN  /\ Handled(issues, r,
                    Entry("start", "none", FALSE, NoCb, r)
                      @@ [ev |-> EvEmpty, opt |-> OptPulsate, box |-> rect])
         /\ events' = Append(events, Received("focus", "", FALSE,
                                              IF issues THEN Tag ELSE 0))

\* handleBlur: focusVisible is reset and stop(event) is called.
Blur(eager) ==
  /\ CanReceive
  /\ focused
  /\ focused' = FALSE
  /\ focusVisible' = FALSE
  /\ keydownRef' = keydownRef
  /\ LET r == stop(St, EvBlur, NoCb, eager)
     IN  /\ Handled(TRUE, r, Entry("stop", "blur", FALSE, NoCb, r))
         /\ events' = Append(events, Received("blur", "", FALSE, Tag))

\* handleKeyDown, lines 332-347: the restart is stop(event, cb) with a
\* callback that calls start(event).
KeyDown(key, eager) ==
  /\ CanReceive
  /\ focused
  /\ LET issues == focusRipple /\ ~keydownRef /\ focusVisible /\ mounted /\ key = Space
         r == stop(St, EvKeyDown, Tag, eager)
     IN  /\ keydownRef' = (issues \/ keydownRef)
         /\ Handled(issues, r, Entry("stop", "keydown", FALSE, Tag, r))
         /\ events' = Append(events, Received("keydown", key, FALSE,
                                              IF issues THEN Tag ELSE 0))
  /\ UNCHANGED <<focusVisible, focused>>

\* handleKeyUp, lines 376-390: stop(event, cb) with a callback that calls
\* pulsate(event).
KeyUp(key, prevented, eager) ==
  /\ CanReceive
  /\ focused
  /\ LET issues == focusRipple /\ key = Space /\ mounted /\ focusVisible /\ ~prevented
         r == stop(St, EvKeyUp, Tag, eager)
     IN  /\ keydownRef' = (~issues /\ keydownRef)
         /\ Handled(issues, r, Entry("stop", "keyup", FALSE, Tag, r))
         /\ events' = Append(events, Received("keyup", key, prevented,
                                              IF issues THEN Tag ELSE 0))
  /\ UNCHANGED <<focusVisible, focused>>

\* The render under ButtonBase: the callback the effect of lines 141-146
\* invokes is the one a key handler passed to stop; the callback of a keydown
\* calls start(event), the callback of a keyup calls pulsate(event), on the
\* state the render has committed.
RenderKeys(eager) ==
  /\ mounted
  /\ queue # <<>>
  /\ LET r == ApplyQueue([ripples |-> ripples, changed |-> FALSE], queue, nextKey)
         fire == r.changed /\ rippleCallback # NoCb
         s1 == [St EXCEPT !.ripples = r.ripples, !.queue = <<>>]
         kind == IF fire THEN log[rippleCallback].type ELSE "none"
         s2 == IF kind = "keydown" THEN start(s1, EvKeyDown, OptNone, NoCb, Tag, eager)
               ELSE IF kind = "keyup" THEN pulsate(s1, Tag, eager)
               ELSE s1
         s3 == IF r.changed THEN [s2 EXCEPT !.rippleCallback = NoCb] ELSE s2
         entry == [op |-> "start", type |-> IF kind = "keydown" THEN "keydown" ELSE "none",
                   touches |-> FALSE, cb |-> NoCb,
                   clean |-> s1.ripples = <<>> /\ s1.startTimerCommit = <<>>,
                   keys |-> s1.nextKey, armed |-> NoTimer,
                   ev |-> IF kind = "keydown" THEN EvKeyDown ELSE EvEmpty,
                   opt |-> IF kind = "keydown" THEN OptNone ELSE OptPulsate,
                   box |-> rect]
     IN  /\ Set(s3)
         /\ log' = IF kind \in {"keydown", "keyup"} THEN Append(log, entry) ELSE log
         /\ delivered' = IF fire THEN Append(delivered, rippleCallback) ELSE delivered
         /\ created' = created \o NewKeys(queue, nextKey)
         /\ group' = IF r.changed THEN reconcile(group, Keys(r.ripples), Time)
                      ELSE group
  /\ UNCHANGED <<fired, now, exited>>
  /\ UNCHANGED adapter

NextKeys ==
  \/ \E v \in BOOLEAN, g \in Eagers : Focus(v, g)
  \/ \E g \in Eagers : Blur(g)
  \/ \E k \in KeyNames, g \in Eagers : KeyDown(k, g)
  \/ \E k \in KeyNames, p \in BOOLEAN, g \in Eagers : KeyUp(k, p, g)
  \/ \E g \in BOOLEAN : RenderKeys(g)

SpecKeys == Init /\ [][NextKeys]_vars

\* ------------------------------------------------------- helpers of claims
\* The collection after the first k queued updaters have run.
Coll(k) ==
  ApplyQueue([ripples |-> ripples, changed |-> FALSE], SubSeq(queue, 1, k),
             nextKey).ripples

\* A render step: the only step that empties a non-empty queue.
IsRender == mounted /\ queue # <<>> /\ queue' = <<>>

\* A step that is a call of the handle, by what the log gains.
IsCall(op, type) ==
  /\ Len(log') = Len(log) + 1
  /\ log'[Len(log')].op = op
  /\ log'[Len(log')].type = type

\* A step in which a timer fires.
IsFire == fired' # fired

Tags(seq) == {seq[i].tag : i \in DOMAIN seq}
Adds(q) == {q[i] : i \in {j \in DOMAIN q : q[j].op = "add"}}
Times(i) == Cardinality({k \in DOMAIN delivered : delivered[k] = i})

\* ---------------------------------------------------------------------- C1
\* C1: a stop that is not a force-firing touchend enqueues the slice updater;
\* at the render every slice updater that runs against a non-empty collection
\* returns that collection without its element at index 0, all others kept in
\* order, and the state rendered is the result of the updaters in order.
C1_StopRemovesIndex0 ==
  [][IsRender =>
       /\ ripples' = Coll(Len(queue))
       /\ \A k \in 1..Len(queue) :
            (queue[k].op = "slice" /\ Coll(k - 1) # <<>>) =>
              /\ Len(Coll(k)) = Len(Coll(k - 1)) - 1
              /\ \A i \in 1..Len(Coll(k)) : Coll(k)[i] = Coll(k - 1)[i + 1]]_vars

\* Two starts then a mouseup stop: the first start's element is gone, the
\* second is still there.
C1_Witness ==
  /\ Len(log) = 3
  /\ log[3].op = "stop" /\ log[3].type = "mouseup"
  /\ queue = <<>>
  /\ Len(created) = 2
  /\ Tags(ripples) = {2}

\* ---------------------------------------------------------------------- C2
\* The callbacks passed to start or stop so far, and the ones the engine
\* still holds: in rippleCallback, in the deferred commit or in a stop timer.
Issued == {i \in DOMAIN log : log[i].cb # NoCb}
Held ==
  {rippleCallback} \cup {startTimerCommit[i].cb : i \in DOMAIN startTimerCommit}
    \cup {t.cb : t \in timers}

\* C2: every callback passed to start or stop is invoked exactly once and only
\* after the render that applied its call's update: never twice, never while
\* its update is still queued, and one not yet invoked is still held by the
\* engine for delivery (a callback the engine no longer holds is never invoked).
C2_CallbackExactlyOnce ==
  mounted =>
    \A i \in Issued :
      /\ Times(i) <= 1
      /\ Times(i) = 0 => i \in Held
      /\ Times(i) = 1 => \A k \in DOMAIN queue : queue[k].cb # i

\* ---------------------------------------------------------------------- C3
\* Calls i and i + 1 are a quick tap that is over: call i is a touch start on
\* an engine with no element, no queued update and no pending commit, call
\* i + 1 is the touchend stop that found that commit still pending (it armed
\* the zero-delay timer), no call followed, that timer has fired and every
\* update is rendered.
QuickTapDone(i) ==
  /\ mounted
  /\ Len(log) = i + 1
  /\ log[i].op = "start" /\ log[i].type = "touchstart" /\ log[i].clean
  /\ log[i + 1].op = "stop" /\ log[i + 1].type = "touchend"
  /\ log[i + 1].armed # NoTimer
  /\ log[i + 1].armed \in fired
  /\ queue = <<>>

\* C3: a touch start and a touchend stop before the deferral timer fires create
\* exactly one element and remove it again: after the zero-delay timer and the
\* render the collection is empty, one key was used, and the stop's callback
\* was invoked exactly once (the start's at most once).
C3_QuickTap ==
  \A i \in 1..(Len(log) - 1) :
    QuickTapDone(i) =>
      /\ ripples = <<>>
      /\ nextKey = log[i].keys + 1
      /\ startTimerCommit = <<>>
      /\ timers = {}
      /\ log[i + 1].cb # NoCb => Times(i + 1) = 1
      /\ Times(i) <= 1

\* The tap is over, the stop's callback was delivered once, after the start's.
C3_Witness ==
  /\ QuickTapDone(1)
  /\ delivered = <<1, 2>>
  /\ ripples = <<>>
  /\ Len(created) = 1

\* ---------------------------------------------------------------------- C4
\* C4: a mousedown start while ignoringMouseDown is true clears the flag and
\* does nothing else: collection, queue, key counter, pending callback,
\* deferred commit and timers are as before.
C4_MouseAfterTouch ==
  [][\A o \in {OptNone, OptPulsate}, c \in CbArgs, g \in BOOLEAN :
       (ignoringMouseDown /\ IsCall("start", "mousedown")
          /\ Start(EvMouseDown, o, c, g)) =>
         /\ ignoringMouseDown' = FALSE
         /\ UNCHANGED <<ripples, queue, nextKey, rippleCallback, startTimer,
                        startTimerCommit, timers, nextTimer, created, fired,
                        delivered, discarded>>]_vars

\* A mousedown start right after a touch start: no element, no key used, the
\* touch commit still pending with its timer, the flag cleared.
C4_Witness ==
  /\ Len(log) = 2
  /\ log[1].type = "touchstart"
  /\ log[2].type = "mousedown"
  /\ ~ignoringMouseDown
  /\ nextKey = 0
  /\ queue = <<>>
  /\ startTimerCommit # <<>>
  /\ Cardinality(timers) = 1

\* ---------------------------------------------------------------------- C5
AddTags(q) == {u.tag : u \in Adds(q)}
PendingTags == {startTimerCommit[i].tag : i \in DOMAIN startTimerCommit}

\* C5: a touch start leaves the collection, the queue and the key counter as
\* they are; the element of a touch start is enqueued only by the deferral
\* timer or by a touchend stop that finds the commit pending; when the
\* deferral timer fires on a pending commit it runs that commit once (one
\* element enqueued, one key used, its callback pending) and clears the slot;
\* no commit ever runs twice.
C5_TouchDeferred ==
  [][/\ \A o \in {OptNone, OptPulsate}, c \in CbArgs, g \in BOOLEAN :
          (IsCall("start", "touchstart") /\ Start(EvTouchStart, o, c, g)) =>
            UNCHANGED <<ripples, queue, nextKey, rippleCallback, created>>
     /\ (\E n \in AddTags(queue') \ AddTags(queue) : log'[n].touches) =>
          \/ \E t \in timers, g \in BOOLEAN : FireStartTimer(t, g)
          \/ \E c \in CbArgs, g \in BOOLEAN :
               startTimerCommit # <<>> /\ Stop(EvTouchEnd, c, g)
          \/ \E t \in timers, g \in BOOLEAN :
               /\ startTimerCommit # <<>>
               /\ t.event.type = "touchend"
               /\ FireStopTimer(t, g)
     /\ Tags(ripples') \subseteq Tags(ripples) \cup AddTags(queue)
     /\ \A t \in timers, g \in BOOLEAN :
          (mounted /\ startTimerCommit # <<>> /\ IsFire /\ FireStartTimer(t, g)) =>
            /\ startTimerCommit' = <<>>
            /\ nextKey' = nextKey + 1
            /\ Len(queue') = Len(queue) + 1
            /\ SubSeq(queue', 1, Len(queue)) = queue
            /\ queue'[Len(queue')].op = "add"
            /\ queue'[Len(queue')].tag = startTimerCommit[1].tag
            /\ rippleCallback' = startTimerCommit[1].cb
     /\ PendingTags' \cap (Tags(ripples') \cup AddTags(queue')) = {}
     /\ Cardinality(Tags(ripples') \cup AddTags(queue'))
          = Len(ripples') + Cardinality(Adds(queue'))]_vars

\* The deferral timer of the touch start has fired and its element is rendered.
C5_Witness ==
  /\ Len(log) = 1
  /\ log[1].type = "touchstart"
  /\ log[1].armed \in fired
  /\ Tags(ripples) = {1}
  /\ startTimerCommit = <<>>

\* ---------------------------------------------------------------------- C6
\* C6: a stop whose event is not a touchend leaves no deferral timer armed and
\* no commit pending, and a commit dropped that way is never run afterwards:
\* its element is never enqueued, rendered or pending again.
C6_StopCancelsDeferral ==
  [][/\ \A c \in CbArgs, g \in BOOLEAN :
          (IsCall("stop", "mouseup") /\ Stop(EvMouseUp, c, g)) =>
            /\ startTimerCommit' = <<>>
            /\ \A t \in timers' : t.delay # DELAY_RIPPLE
            /\ \A t \in timers : t.id = startTimer => t \notin timers'
            /\ startTimerCommit # <<>> => startTimerCommit[1].tag \in discarded'
     /\ discarded \subseteq discarded'
     /\ discarded' \cap (Tags(ripples') \cup AddTags(queue') \cup PendingTags') = {}]_vars

\* A touch start, then a mouseup stop: the commit is gone, no timer is left and
\* no key was used.
C6_Witness ==
  /\ Len(log) = 2
  /\ log[1].type = "touchstart"
  /\ log[2].type = "mouseup"
  /\ discarded = {1}
  /\ timers = {}
  /\ fired = {}
  /\ nextKey = 0
  /\ startTimerCommit = <<>>

\* ---------------------------------------------------------------------- C7
\* C7: the keys of the elements an engine creates are pairwise different and
\* grow in creation order.
C7_KeysUniqueIncreasing ==
  \A i, j \in DOMAIN created : i < j => created[i] < created[j]

\* ---------------------------------------------------------------------- C8
NoStop == \A i \in DOMAIN log : log[i].op = "start"
SyncCalls == {i \in DOMAIN log : ~log[i].touches}
TouchCalls == {i \in DOMAIN log : log[i].touches}

\* ignoringMouseDown as call i found it: the last touchstart or mousedown
\* start before it was a touchstart.
FlagBefore(i) ==
  \E j \in 1..(i - 1) :
    /\ log[j].type = "touchstart"
    /\ \A k \in (j + 1)..(i - 1) : log[k].type # "mousedown"
Suppressed(i) == log[i].type = "mousedown" /\ FlagBefore(i)

InCallOrder(set) ==
  \A a, b \in DOMAIN ripples :
    (a < b /\ ripples[a].tag \in set /\ ripples[b].tag \in set) =>
      ripples[a].tag < ripples[b].tag

\* C8 as stated: with only start calls so far and every update rendered, the
\* collection has one element per non-deferred start call, in call order.
C8_LengthIsNonDeferredCalls ==
  (mounted /\ NoStop /\ queue = <<>>) =>
    /\ Len(ripples) = Cardinality(SyncCalls)
    /\ InCallOrder(DOMAIN log)

\* C8 amended: with only start calls so far and every update rendered, the
\* collection has exactly one element per start call that committed: the
\* non-touch starts the mouse-after-touch filter let through and the touch
\* starts whose deferral timer has fired; its length is the number of keys used;
\* the non-touch elements are in call order and so are the touch elements.
C8_LengthIsCommittedCalls ==
  (mounted /\ NoStop /\ queue = <<>>) =>
    /\ Tags(ripples) \cap SyncCalls = {i \in SyncCalls : ~Suppressed(i)}
    /\ Tags(ripples) \cap TouchCalls
         = {i \in TouchCalls : log[i].armed # NoTimer /\ log[i].armed \in fired}
    /\ Len(ripples) = Cardinality(Tags(ripples))
    /\ Len(ripples) = nextKey
    /\ InCallOrder(SyncCalls)
    /\ InCallOrder(TouchCalls)

\* A touch start, a keyboard start, a suppressed mousedown start; the touch
\* element was committed by its timer after the keyboard one.
C8_Witness ==
  /\ mounted /\ NoStop /\ queue = <<>>
  /\ Len(log) = 3
  /\ Suppressed(3)
  /\ Len(ripples) = 2
  /\ ripples[1].tag = 2
  /\ ripples[2].tag = 1

\* ---------------------------------------------------------------------- C9
\* C9: after the unmount no timer of the engine is left armed.
C9_TeardownCancelsTimers == ~mounted => timers = {}

\* --------------------------------------------------------------------- C10
\* C10 as stated: a pulsate step with argument c is the step
\* start({}, {pulsate: true}, c) takes from the same state.
C10_PulsateIsStartWithCallback ==
  [][\A c \in CbArgs, g \in BOOLEAN :
       (IsCall("start", "none") /\ Pulsate(c, g)) =>
         Start(EvEmpty, OptPulsate, c, g)]_vars

\* C10 amended: a pulsate step, whatever is passed to it, is the step
\* start({}, {pulsate: true}) with no callback takes from the same state: same
\* collection, queue, flags and timers, and no callback pending afterwards, so
\* an argument of pulsate is never delivered.
C10_PulsateIsStartWithoutCallback ==
  [][\A c \in CbArgs, g \in BOOLEAN :
       (IsCall("start", "none") /\ rippleCallback' = NoCb /\ Pulsate(c, g)) =>
         /\ Start(EvEmpty, OptPulsate, NoCb, g)
         /\ rippleCallback' = NoCb
         /\ c # NoCb => c \notin Held']_vars

\* After a pulsate on the fresh engine: one pulsating element enqueued, no
\* callback pending.
C10_Witness ==
  /\ Len(log) = 1
  /\ log[1].type = "none"
  /\ log[1].cb = NoCb
  /\ rippleCallback = NoCb
  /\ Len(queue) = 1
  /\ queue[1].op = "add"
  /\ queue[1].pulsate
  /\ nextKey = 1

\* --------------------------------------------------------------------- C11
\* A step that is a start call (pulsate is logged as the start call it makes).
IsStartCall == Len(log') = Len(log) + 1 /\ log'[Len(log')].op = "start"

\* The last call was a pulsate.
PulsateLast ==
  /\ log # <<>>
  /\ log[Len(log)].op = "start"
  /\ log[Len(log)].opt = OptPulsate
  /\ log[Len(log)].cb = NoCb

\* C11: a pulsate commits in the call: exactly one pulsating element is
\* enqueued, at the center of the surface box ((0, 0) for a zero-sized box),
\* and one key is used, whatever ignoringMouseDown is; the flag, the pending
\* touch commit and the timers are left as they are; on an engine with no
\* element the render then shows exactly that one element.
C11_PulsateCreatesOne ==
  [][/\ (IsStartCall /\ GeoPulsate) =>
          /\ Len(queue') = Len(queue) + 1
          /\ SubSeq(queue', 1, Len(queue)) = queue
          /\ LET u == queue'[Len(queue')]
             IN  /\ u.op = "add"
                 /\ u.pulsate
                 /\ u.rippleX = RoundHalf(rect.width)
                 /\ u.rippleY = RoundHalf(rect.height)
                 /\ (rect.width = 0 /\ rect.height = 0) =>
                      (u.rippleX = 0 /\ u.rippleY = 0)
          /\ nextKey' = nextKey + 1
          /\ UNCHANGED <<ignoringMouseDown, startTimerCommit, startTimer, timers,
                         nextTimer, ripples>>
     /\ (IsRender /\ PulsateLast /\ ripples = <<>>) =>
          /\ Len(ripples') = 1
          /\ ripples'[1].pulsate
          /\ ripples'[1].rippleX = RoundHalf(rect.width)
          /\ ripples'[1].rippleY = RoundHalf(rect.height)]_vars

\* A pulsate after a touch start, on a zero-sized surface: one pulsating
\* element at (0, 0), the flag still set and the touch commit still pending.
C11_Witness ==
  /\ Len(log) = 2
  /\ log[1].type = "touchstart"
  /\ PulsateLast
  /\ rect.width = 0 /\ rect.height = 0
  /\ Len(ripples) = 1
  /\ ripples[1].pulsate
  /\ ripples[1].rippleX = 0 /\ ripples[1].rippleY = 0
  /\ ignoringMouseDown
  /\ startTimerCommit # <<>>
  /\ Cardinality(timers) = 1

\* --------------------------------------------------------------------- C12
\* The collection once the updaters queued after the step have run.
CollAfter ==
  ApplyQueue([ripples |-> ripples', changed |-> FALSE], queue', nextKey').ripples

\* The stop calls with a callback that found the engine empty: no element, no
\* update queued, no commit pending.
EmptyStops == {i \in Issued : log[i].op = "stop" /\ log[i].clean}

\* C12: a stop on an empty collection leaves the collection empty, stores its
\* callback as the pending callback and invokes nothing; the callback is then
\* invoked by the next render that changes the collection.
C12_StopOnEmptyKeepsCallback ==
  [][/\ \A e \in StopEvents, c \in CbArgs, g \in BOOLEAN :
          (/\ ripples = <<>> /\ queue = <<>> /\ startTimerCommit = <<>>
           /\ IsCall("stop", e.type) /\ Stop(e, c, g)) =>
            /\ ripples' = <<>>
            /\ CollAfter = <<>>
            /\ nextKey' = nextKey
            /\ rippleCallback' = c
            /\ delivered' = delivered
     /\ (IsRender /\ ripples' # ripples) =>
          \A i \in EmptyStops :
            Times(i) = 0 => \E k \in DOMAIN delivered' : delivered'[k] = i]_vars

\* --------------------------------------------------------------------- C13
\* C13: no command throws to its caller.
C13_NoFault == ~fault

\* --------------------------------------------------------------------- C14
\* The parameters the step handed to startCommit or stored as the pending
\* commit: <<>> if it did neither.
Made ==
  IF Len(queue') > Len(queue) THEN <<queue'[Len(queue')]>>
  ELSE IF startTimerCommit' # startTimerCommit THEN startTimerCommit'
  ELSE <<>>

\* The options ask for a centered ripple, or not.
Centered(o) == (o.hasCenter /\ o.center) \/ (~o.hasCenter /\ o.pulsate)

\* The event carries coordinates: a touch list, or client coordinates that are
\* not both zero.
HasCoords(e) ==
  e.hasTouches \/ (e.hasClient /\ ~(e.clientX = 0 /\ e.clientY = 0))

\* C14: a start that is not centered, with an event that carries coordinates,
\* places the ripple at the event coordinates minus the top-left corner of
\* the box, with sizeX = 2 * max(|clientWidth - x|, x) + 2, sizeY likewise and
\* the squared diameter sizeX^2 + sizeY^2; for the event at (60, 30) and the
\* box (10, 10, 100, 50) that is (50, 20), 102 and 62.
C14_NonCenteredGeometry ==
  [][(IsStartCall /\ Made # <<>>) =>
       LET e == log'[Len(log')].ev
           o == log'[Len(log')].opt
           m == Made[1]
           px == IF e.hasTouches THEN e.touchX ELSE e.clientX
           py == IF e.hasTouches THEN e.touchY ELSE e.clientY
           left == IF o.fakeElement THEN 0 ELSE rect.left
           top == IF o.fakeElement THEN 0 ELSE rect.top
           cw == IF o.fakeElement THEN 0 ELSE rect.clientWidth
           ch == IF o.fakeElement THEN 0 ELSE rect.clientHeight
           x == px - left
           y == py - top
           sizeX == 2 * Max(Abs(cw - x), x) + 2
           sizeY == 2 * Max(Abs(ch - y), y) + 2
       IN  (~Centered(o) /\ HasCoords(e)) =>
             /\ m.rippleX = x
             /\ m.rippleY = y
             /\ m.rippleSize = 3 * (sizeX * sizeX + sizeY * sizeY)
             /\ (px = 60 /\ py = 30 /\ rect = BoxA /\ ~o.fakeElement) =>
                  /\ m.rippleX = 50 /\ m.rippleY = 20
                  /\ sizeX = 102 /\ sizeY = 62
                  /\ m.rippleSize = 3 * (102 * 102 + 62 * 62)]_vars

\* --------------------------------------------------------------------- C15
\* C15: a centered start places the ripple at the rounded half width and half
\* height of the box; its squared diameter is (2 * width^2 + height^2) / 3,
\* except that a diameter that is an even integer n becomes n + 1; for the
\* box 100 x 50 that is (50, 25) and 7500, for a zero-sized box the diameter
\* is 1. (The model keeps three times the squared diameter.)
C15_CenteredGeometry ==
  [][(IsStartCall /\ Made # <<>>) =>
       LET o == log'[Len(log')].opt
           m == Made[1]
           w == IF o.fakeElement THEN 0 ELSE rect.width
           h == IF o.fakeElement THEN 0 ELSE rect.height
           q == 2 * w * w + h * h
           evens == {n \in 0..(w + h) : n % 2 = 0 /\ 3 * n * n = q}
       IN  Centered(o) =>
             /\ m.rippleX = RoundHalf(w)
             /\ m.rippleY = RoundHalf(h)
             /\ \A n \in evens : m.rippleSize = 3 * (n + 1) * (n + 1)
             /\ evens = {} => m.rippleSize = q
             /\ \A n \in 0..(w + h + 1) :
                  m.rippleSize = 3 * n * n => n % 2 = 1
             /\ (w = 100 /\ h = 50) =>
                  (m.rippleX = 50 /\ m.rippleY = 25 /\ m.rippleSize = 3 * 7500)
             /\ (w = 0 /\ h = 0) => m.rippleSize = 3]_vars

\* A centered start on the 100 x 50 box, rendered: (50, 25) and 7500.
C15_Witness ==
  /\ Len(log) = 1
  /\ log[1].opt.hasCenter /\ log[1].opt.center
  /\ Len(ripples) = 1
  /\ ripples[1].rippleX = 50
  /\ ripples[1].rippleY = 25
  /\ ripples[1].rippleSize = 3 * 7500

\* --------------------------------------------------------------------- C16
\* C16: at most one engine timer is armed at any time and it is the one whose
\* handle startTimer holds; a touch start that finds a commit pending changes
\* neither the stored commit nor the timers.
C16_OneTimerOutstanding ==
  [][/\ Cardinality(timers') <= 1
     /\ \A t \in timers' : t.id = startTimer'
     /\ Len(startTimerCommit') <= 1
     /\ (startTimerCommit # <<>> /\ IsCall("start", "touchstart")) =>
          UNCHANGED <<startTimerCommit, timers, startTimer, nextTimer>>]_vars

\* --------------------------------------------------------------------- C17
\* C17: a touchend stop that finds a commit pending enqueues that commit's
\* element and no removal, clears the slot and arms a zero-delay timer holding
\* the same event and callback; when that timer's stop enqueues the removal,
\* with that callback, the collection it will run against contains the
\* element the arming stop committed.
C17_ForceFireThenRemove ==
  [][/\ \A c \in CbArgs, g \in BOOLEAN :
          (/\ startTimerCommit # <<>>
           /\ IsCall("stop", "touchend")
           /\ TapStop(EvTouchEnd, c, g)) =>
            /\ Len(queue') = Len(queue) + 1
            /\ SubSeq(queue', 1, Len(queue)) = queue
            /\ queue'[Len(queue')].op = "add"
            /\ queue'[Len(queue')].tag = startTimerCommit[1].tag
            /\ startTimerCommit' = <<>>
            /\ \E t \in timers' \ timers :
                 /\ t.delay = ZERO_DELAY
                 /\ t.event = EvTouchEnd
                 /\ t.cb = c
                 /\ t.tag = startTimerCommit[1].tag
                 /\ startTimer' = t.id
     /\ \A t \in timers, g \in BOOLEAN :
          (/\ IsFire
           /\ t.delay = ZERO_DELAY
           /\ FireStopTimer(t, g)
           /\ Len(queue') > Len(queue)
           /\ queue'[Len(queue')].op = "slice") =>
            /\ queue'[Len(queue')].cb = t.cb
            /\ rippleCallback' = t.cb
            /\ t.tag \in Tags(Coll(Len(queue)))]_vars

\* --------------------------------------------------------------------- C18
\* C18: the engine invokes only the callback in rippleCallback, at a render,
\* and clears the slot; every start-commit and every stop that runs stores its
\* own callback there, or nothing if it has none, whatever was pending; a
\* callback overwritten that way is held nowhere, and a callback that is
\* neither invoked nor held is never invoked later.
C18_OnePendingCallback ==
  [][/\ delivered' # delivered =>
          /\ IsRender
          /\ rippleCallback # NoCb
          /\ delivered' = Append(delivered, rippleCallback)
          /\ rippleCallback' = NoCb
     /\ Len(queue') > Len(queue) => rippleCallback' = queue'[Len(queue')].cb
     /\ (Len(log') > Len(log) /\ Len(queue') > Len(queue)
           /\ queue'[Len(queue')].op = "slice") =>
          rippleCallback' = log'[Len(log')].cb
     /\ (rippleCallback # NoCb /\ rippleCallback' # rippleCallback /\ ~IsRender) =>
          /\ rippleCallback \notin Held'
          /\ Times(rippleCallback)' = 0
     /\ \A i \in Issued :
          (Times(i) = 0 /\ i \notin Held) => (Times(i)' = 0 /\ i \notin Held')]_vars

\* A stop with a callback on the empty engine, then a stop without one: the
\* first callback is gone and was never invoked.
C18_Witness ==
  /\ Len(log) = 2
  /\ log[1].op = "stop" /\ log[1].clean /\ log[1].cb = 1
  /\ log[2].op = "stop" /\ log[2].cb = NoCb
  /\ ripples = <<>>
  /\ rippleCallback = NoCb
  /\ 1 \notin Held
  /\ delivered = <<>>

\* --------------------------------------------------------------------- C19
\* The instances in the Leaving phase: rendered with in = false, their exit
\* timer armed and not yet fired.
Leaving == {c \in group : ~c.in}
StopCalls == {i \in DOMAIN log : log[i].op = "stop"}

\* C19 as stated: at any time at most one instance is in the Leaving phase.
C19_AtMostOneLeaving == Cardinality(Leaving) <= 1

\* C19 amended: no instance of the ripples collection is in the Leaving phase
\* (stop removes an instance from the collection when it starts to leave, and
\* every instance still rendered as entered is in the collection); a leaving
\* instance has its exit timer armed DURATION after it left; each stop command
\* puts at most one instance into the Leaving phase, so the instances leaving
\* and those that have exited together number at most the stop commands, and
\* several can be leaving at once.
C19_LeavingAreRemoved ==
  /\ \A c \in Leaving :
       /\ c.key \notin Keys(ripples)
       /\ c.leaving
       /\ c.deadline = c.flip + DURATION
  /\ mounted => \A c \in group \ Leaving : c.key \in Keys(ripples)
  /\ Cardinality(Leaving) + Len(exited) <= Cardinality(StopCalls)

\* Two starts and two stops less than DURATION apart: two instances are
\* leaving at once.
C19_Witness ==
  /\ Cardinality(Leaving) = 2
  /\ \E c, d \in Leaving : c.flip < d.flip /\ d.flip < c.flip + DURATION
  /\ ripples = <<>>
  /\ Cardinality(StopCalls) = 2

\* --------------------------------------------------------------------- C20
\* C20: a Ripple instance invokes onExited only when its in prop is false and
\* DURATION has elapsed since it became false, and once per such flip: the
\* instance is unmounted by the signal; an instance rendered with in = true has
\* no timer armed; after the component is unmounted no instance is left and no
\* signal is invoked any more.
C20_ExitAfterTimeout ==
  [][/\ exited' # exited =>
          \E c \in group :
            /\ ~c.in /\ c.leaving
            /\ Time >= c.flip + DURATION
            /\ exited' = Append(exited, [key |-> c.key, at |-> Time, flip |-> c.flip])
            /\ group' = group \ {c}
     /\ \A i, j \in DOMAIN exited' :
          (i # j /\ exited'[i].key = exited'[j].key) =>
            exited'[i].flip # exited'[j].flip
     /\ \A c \in group' : c.in => c.deadline = NoDeadline
     /\ ~mounted' => group' = {}
     /\ ~mounted => exited' = exited]_vars

\* An instance has signalled its exit DURATION after it left, another one is
\* still leaving.
C20_Witness ==
  /\ Len(exited) = 1
  /\ exited[1].at = exited[1].flip + DURATION
  /\ Cardinality(Leaving) = 1
  /\ mounted

\* --------------------------------------------------------------------- C24
\* The event reports no usable coordinates: client coordinates both zero, or
\* no clientX and no touch list.
NoUsableCoords(e) ==
  \/ (e.hasClient /\ e.clientX = 0 /\ e.clientY = 0)
  \/ (~e.hasClient /\ ~e.hasTouches)

\* C24: the ripple is placed at the center of the box when the effective
\* center option is true or the event has no usable coordinates, and at the
\* event coordinates minus the top-left corner of the box otherwise; the
\* diameter is the centered one when the effective center option is true and
\* the farthest-corner one of the position otherwise, also when the position
\* is the center for want of coordinates.
C24_CenterPlacement ==
  [][(IsStartCall /\ Made # <<>>) =>
       LET e == log'[Len(log')].ev
           o == log'[Len(log')].opt
           m == Made[1]
           px == IF e.hasTouches THEN e.touchX ELSE e.clientX
           py == IF e.hasTouches THEN e.touchY ELSE e.clientY
           w == IF o.fakeElement THEN 0 ELSE rect.width
           h == IF o.fakeElement THEN 0 ELSE rect.height
           left == IF o.fakeElement THEN 0 ELSE rect.left
           top == IF o.fakeElement THEN 0 ELSE rect.top
           cw == IF o.fakeElement THEN 0 ELSE rect.clientWidth
           ch == IF o.fakeElement THEN 0 ELSE rect.clientHeight
           sizeX == 2 * Max(Abs(cw - m.rippleX), m.rippleX) + 2
           sizeY == 2 * Max(Abs(ch - m.rippleY), m.rippleY) + 2
       IN  /\ (Centered(o) \/ NoUsableCoords(e)) =>
                (m.rippleX = RoundHalf(w) /\ m.rippleY = RoundHalf(h))
           /\ ~(Centered(o) \/ NoUsableCoords(e)) =>
                (m.rippleX = px - left /\ m.rippleY = py - top)
           /\ Centered(o) => m.rippleSize = CenteredSize3(w, h)
           /\ ~Centered(o) =>
                m.rippleSize = 3 * (sizeX * sizeX + sizeY * sizeY)]_vars

\* --------------------------------------------------------------------- C25
\* The keydown that issued the restart, and a keyup of the space key.
Restart(i) == events[i].kind = "keydown" /\ events[i].call # 0
SpaceUp(k) == events[k].kind = "keyup" /\ events[k].key = Space
Restarts == {i \in DOMAIN events : Restart(i)}

\* C25: the restarts ButtonBase has issued are the stop commands with a
\* keydown event, each with its callback; after a keydown that issued the
\* restart a keydown issues no command as long as no keyup of the space key
\* has been received; once such a keyup has been received, the next space
\* keydown on the focus-visible control issues the restart again.
C25_RepeatsIgnoredUntilKeyUp ==
  /\ \A i \in Restarts :
       /\ log[events[i].call].op = "stop"
       /\ log[events[i].call].type = "keydown"
       /\ log[events[i].call].cb = events[i].call
  /\ Cardinality({n \in DOMAIN log : log[n].op = "stop" /\ log[n].type = "keydown"})
       = Cardinality(Restarts)
  /\ \A i \in Restarts, j \in DOMAIN events :
       (i < j /\ events[j].kind = "keydown") =>
         LET ups == {k \in (i + 1)..(j - 1) : SpaceUp(k)}
         IN  /\ ups = {} => events[j].call = 0
             /\ (/\ ups # {}
                 /\ Restarts \cap ((i + 1)..(j - 1)) = {}
                 /\ events[j].key = Space
                 /\ events[j].visible) => Restart(j)

\* --------------------------------------------------------------------- C21
\* The values call i computed: the geometry of its event and options on the
\* box the surface had at the call, its pulsate option and its callback.
AtCall(i, el, withCb) ==
  LET c == log[i]
      geo == Geometry(c.ev, Centered(c.opt),
                      IF c.opt.fakeElement THEN <<>> ELSE <<c.box>>)
  IN  /\ c.op = "start"
      /\ el.rippleX = geo.rippleX
      /\ el.rippleY = geo.rippleY
      /\ el.rippleSize = geo.rippleSize
      /\ el.pulsate = (c.opt.hasPulsate /\ c.opt.pulsate)
      /\ withCb => el.cb = c.cb

\* C21: the pending commit of a touch start, the element a commit has
\* enqueued and the element in the collection carry the geometry, the
\* pulsate flag and (commit and enqueued element) the callback computed at
\* the start call that made them, whatever the surface box has become since
\* and whatever calls were made since.
C21_ValuesOfTheStartCall ==
  /\ \A k \in DOMAIN startTimerCommit :
       AtCall(startTimerCommit[k].tag, startTimerCommit[k], TRUE)
  /\ \A u \in Adds(queue) : AtCall(u.tag, u, TRUE)
  /\ \A k \in DOMAIN ripples : AtCall(ripples[k].tag, ripples[k], FALSE)

\* A touch start was deferred on one box; a second touch start, made on the
\* other box, found the commit pending; the commit of the first has since
\* produced its element.
C21_Witness ==
  \E i \in DOMAIN log :
    /\ i < Len(log)
    /\ log[i].touches /\ log[i].armed # NoTimer
    /\ log[i + 1].touches /\ log[i + 1].armed = NoTimer
    /\ log[i + 1].box # log[i].box
    /\ i \in Tags(ripples)

\* --------------------------------------------------------------------- C22
\* C22: on a mounted component a pending deferred commit always has its
\* 80 ms timer armed, so that the commit is resolved by that timer or by a
\* stop and is never left pending with the timer cancelled.
C22_PendingHasTimer ==
  (mounted /\ startTimerCommit # <<>>) =>
    \E t \in timers : t.id = startTimer /\ t.delay = DELAY_RIPPLE

\* --------------------------------------------------------------------- C23
\* C23: ignoringMouseDown is set only by a touch start and cleared only by a
\* mousedown start, which then commits nothing; no stop, pulsate, other start,
\* timer or render changes it; a mousedown start that finds the flag clear
\* commits its element. So after touch starts one mousedown start is
\* suppressed and the next one creates a ripple.
C23_FlagClearedOnlyByMouseDown ==
  [][/\ (ignoringMouseDown /\ ~ignoringMouseDown') =>
          /\ IsCall("start", "mousedown")
          /\ UNCHANGED <<queue, nextKey, ripples, startTimerCommit, timers>>
     /\ (~ignoringMouseDown /\ ignoringMouseDown') => IsCall("start", "touchstart")
     /\ (ignoringMouseDown /\ IsCall("start", "mousedown")) => ~ignoringMouseDown'
     /\ (~ignoringMouseDown /\ IsCall("start", "mousedown")) =>
          /\ ~ignoringMouseDown'
          /\ nextKey' = nextKey + 1
          /\ Len(queue') = Len(queue) + 1
          /\ queue'[Len(queue')].op = "add"
          /\ queue'[Len(queue')].tag = Len(log')]_vars

\* A touch start and two mousedown starts: the first mousedown created
\* nothing, the second one created a ripple.
C23_Witness ==
  /\ Len(log) = 3
  /\ log[1].type = "touchstart"
  /\ log[2].type = "mousedown"
  /\ log[3].type = "mousedown"
  /\ ~ignoringMouseDown
  /\ 2 \notin Tags(ripples) \cup AddTags(queue)
  /\ 3 \in Tags(ripples)

====
